---- MODULE Spec2Model ----
(***************************************************************************)
(* GA Nurse Jobs Scanner (scraper.py): the fetch -> normalize -> filter -> *)
(* dedup -> persist pipeline of run_scan, and the render/notify tail of    *)
(* main, as a state machine over successive runs of the script.            *)
(*                                                                         *)
(* Strings are sequences of one-character strings, Python dicts are        *)
(* insertion-ordered sequences of <<key, value>> pairs with unique keys,   *)
(* Python lists are sequences.                                             *)
(***************************************************************************)
EXTENDS Integers, Sequences, FiniteSets, TLC

VARIABLES
    CONFIG,         \* the parsed config.yaml (line 25), the same in every invocation
    source,         \* the job-search provider: answering afresh, or frozen to one answer per pair
    seenFile,       \* data/seen_jobs.json: whether it exists, and its JSON text
    pc,             \* position of the script: idle, scan, scanned, rendered, done, fatal
    run,            \* number of invocations of main so far
    apiKey,         \* SERPAPI_KEY is set in this invocation's environment
    pairIdx,        \* index of the next (location, query) pair of the nested loops
    seen,           \* run_scan's local dict seen
    all_jobs,       \* run_scan's list all_jobs; after the return, main's all_jobs
    new_jobs,       \* run_scan's list new_jobs; after the return, main's new_jobs
    ticks,          \* normalize_job calls of this invocation (the clock's position)
    seen0,          \* history: the dict load_seen returned in this invocation
    fetchLog,       \* history: per pair of this invocation, its request and its answer
    prevLog,        \* history: fetchLog of the previous invocation (frozen source only)
    reportWritten,  \* docs/index.html was written by this invocation
    mail            \* history of lines 189-194: the settings read and the SMTP sessions

vars == <<CONFIG, source, seenFile, pc, run, apiKey, pairIdx, seen, all_jobs, new_jobs,
          ticks, seen0, fetchLog, prevLog, reportWritten, mail>>

----------------------------------------------------------------------------
\* Bounds of the model

MaxRuns == 2        \* invocations of the script
MaxResults == 1     \* jobs_results entries in one provider answer
DigestSpace == 5    \* size of the identity-key space (stands for 16^12)

----------------------------------------------------------------------------
\* Strings

Lower(c) ==
    CASE c = "R" -> "r" [] c = "N" -> "n" [] c = "I" -> "i" [] c = "C" -> "c"
      [] c = "U" -> "u" [] c = "A" -> "a" [] c = "X" -> "x" [] OTHER -> c

lower(s) == [i \in 1..Len(s) |-> Lower(s[i])]

\* Python's `needle in hay` on strings
Contains(hay, needle) ==
    \E i \in 0..(Len(hay) - Len(needle)) : SubSeq(hay, i + 1, i + Len(needle)) = needle

\* s[:n]
Prefix(s, n) == SubSeq(s, 1, IF Len(s) < n THEN Len(s) ELSE n)

SnippetLen == 500

\* str.encode(): the code points of the characters the model uses
Ord(c) ==
    CASE c = "R" -> 82 [] c = "N" -> 78 [] c = "I" -> 73 [] c = "C" -> 67
      [] c = "U" -> 85 [] c = "A" -> 65 [] c = "X" -> 88 [] c = "-" -> 45
      [] c = " " -> 32 [] c = "r" -> 114 [] c = "n" -> 110 [] c = "i" -> 105
      [] c = "c" -> 99 [] c = "k" -> 107 [] c = "o" -> 111 [] c = "w" -> 119
      [] OTHER -> 63

encode(s) == [i \in 1..Len(s) |-> Ord(s[i])]

\* hashlib.sha256(bytes).hexdigest()[:12]: a deterministic digest of the bytes into
\* a finite key space, here a polynomial fold into DigestSpace keys
RECURSIVE Fold(_, _)
Fold(bytes, h) ==
    IF bytes = <<>> THEN h
    ELSE Fold(Tail(bytes), (h * 31 + Head(bytes)) % DigestSpace)

sha256_12(bytes) == Fold(bytes, 7 % DigestSpace)

\* dict.get(key, default); a dict with string keys is a record of the keys it holds
Get(d, key, default) == IF key \in DOMAIN d THEN d[key] ELSE default

job_id(job) ==
    sha256_12(encode(Get(job, "title", <<>>) \o <<"-">> \o Get(job, "company_name", <<>>)
                     \o <<"-">> \o Get(job, "location", <<>>)))

----------------------------------------------------------------------------
\* Dicts (insertion-ordered, unique keys)

Keys(d) == {d[i][1] : i \in 1..Len(d)}

Has(d, k) == k \in Keys(d)

Lookup(d, k) == d[CHOOSE i \in 1..Len(d) : d[i][1] = k][2]

\* d[k] = v
Put(d, k, v) ==
    IF Has(d, k) THEN [i \in 1..Len(d) |-> IF d[i][1] = k THEN <<k, v>> ELSE d[i]]
    ELSE Append(d, <<k, v>>)

\* json.dumps(dict): the text of a JSON object, its members in insertion order
dumps(d) == [i \in 1..Len(d) |-> [name |-> d[i][1], value |-> d[i][2]]]

\* json.loads(text): members inserted in order, a repeated name overwriting
RECURSIVE LoadsInto(_, _)
LoadsInto(members, d) ==
    IF members = <<>> THEN d
    ELSE LoadsInto(Tail(members), Put(d, Head(members).name, Head(members).value))

loads(text) == LoadsInto(text, <<>>)

\* load_seen looking for the file where save_seen did not write it
load_seen_elsewhere == <<>>

\* lines 37-40
load_seen == IF seenFile.exists THEN loads(seenFile.text) ELSE <<>>

save_seen(d) == [exists |-> TRUE, text |-> dumps(d)]

----------------------------------------------------------------------------
\* The provider's raw records the model draws answers from

Str_RN == <<"R", "N">>
Str_A == <<"A">>
Str_X == <<"X">>
Str_IC == <<"I", "C">>
Str_rn == <<"r", "n">>
Str_Rn == <<"R", "n">>
Str_Unknown == <<"U", "n", "k", "n", "o", "w", "n">>

RawA == [title |-> Str_RN, company_name |-> Str_A, location |-> Str_X,
         apply_options |-> <<[link |-> "u1"], [link |-> "u2"]>>,
         share_link |-> "s1", via |-> "v1"]

\* the same posting as RawA seen through another board
RawB == [title |-> Str_RN, company_name |-> Str_A, location |-> Str_X,
         description |-> Str_IC, detected_extensions |-> "ext",
         share_link |-> "s2", via |-> "v2"]

\* no title and no location; the keyword is in the description only
RawC == [company_name |-> Str_A, description |-> Str_rn,
         apply_options |-> <<[title |-> "t3"]>>, share_link |-> "s3"]

\* the identity of RawC, and no keyword anywhere
RawD == [company_name |-> Str_A, description |-> Str_X,
         apply_options |-> <<>>, share_link |-> "", via |-> "v4"]

RawPool == {RawA, RawB, RawC, RawD}

RECURSIVE SeqsUpTo(_, _)
SeqsUpTo(S, n) ==
    IF n = 0 THEN {<<>>}
    ELSE SeqsUpTo(S, n - 1) \cup {Append(s, x) : s \in SeqsUpTo(S, n - 1), x \in S}

Answers == SeqsUpTo(RawPool, MaxResults)

----------------------------------------------------------------------------
\* Configuration

Locations == <<[search_string |-> "Tifton"], [search_string |-> "Valdosta"]>>
Queries == <<"infection control nurse">>
KeywordLists == {<<>>, <<Str_IC, Str_Rn>>}

\* config.yaml with and without its optional keys keywords and email_enabled
Configs ==
    LET base == [locations : {Locations}, search_queries : {Queries}]
        kw == [locations : {Locations}, search_queries : {Queries},
               keywords : KeywordLists]
        off == [locations : {Locations}, search_queries : {Queries},
                email_enabled : {FALSE}]
        both == [locations : {Locations}, search_queries : {Queries},
                 keywords : KeywordLists, email_enabled : {FALSE}]
    IN  base \cup kw \cup off \cup both

\* the (location, query) pairs in the order of the nested loops
Pairs ==
    LET locs == Get(CONFIG, "locations", <<>>)
        qs == Get(CONFIG, "search_queries", <<>>)
    IN  [n \in 1..(Len(locs) * Len(qs)) |->
            [loc |-> locs[((n - 1) \div Len(qs)) + 1].search_string,
             q |-> qs[((n - 1) % Len(qs)) + 1]]]

----------------------------------------------------------------------------
\* normalize_job, the keyword filter and the accumulation of one answer

\* datetime.now(timezone.utc).isoformat() at the n-th normalize_job call of
\* invocation r: instants of later invocations are later
Now(r, n) == <<r, n>>

normalize_job(raw, now) ==
    [title |-> Get(raw, "title", Str_Unknown),
     company_name |-> Get(raw, "company_name", Str_Unknown),
     location |-> Get(raw, "location", <<>>),
     description_snippet |-> Prefix(Get(raw, "description", <<>>), SnippetLen),
     detected_extensions |-> Get(raw, "detected_extensions", "{}"),
     apply_link |->
        IF Get(raw, "apply_options", <<>>) # <<>>
        THEN Get(raw.apply_options[1], "link", "")
        ELSE IF Get(raw, "share_link", "") # ""
        THEN raw.share_link
        ELSE "",
     via |-> Get(raw, "via", ""),
     scraped_at |-> now]

\* KeywordMatch without the case folding of the text
KeywordMatchCaseSensitive(job) ==
    LET combined == job.title \o <<" ">> \o job.description_snippet
        kws == Get(CONFIG, "keywords", <<>>)
    IN  \E i \in 1..Len(kws) : Contains(combined, lower(kws[i]))

\* lines 104-105: some keyword, case-folded, occurs in the case-folded title and snippet
KeywordMatch(job) ==
    LET combined == lower(job.title \o <<" ">> \o job.description_snippet)
        kws == Get(CONFIG, "keywords", <<>>)
    IN  \E i \in 1..Len(kws) : Contains(combined, lower(kws[i]))

WithId(job, jid) ==
    [f \in DOMAIN job \cup {"id"} |-> IF f = "id" THEN jid ELSE job[f]]

\* ProcessRaw with lines 109-110 ahead of the keyword filter: a dropped record still
\* marks its key as seen
ProcessRawMarkFirst(raw, st) ==
    LET n == st.ticks + 1
        plain == normalize_job(raw, Now(run, n))
        jid == job_id(plain)
        job == WithId(plain, jid)
        fresh == ~Has(st.seen, jid)
        marked == IF fresh THEN Put(st.seen, jid, job.scraped_at) ELSE st.seen
    IN  IF ~KeywordMatch(job)
        THEN [st EXCEPT !.seen = marked, !.ticks = n]
        ELSE [seen |-> marked,
              all_jobs |-> Append(st.all_jobs, job),
              new_jobs |-> IF fresh THEN Append(st.new_jobs, job) ELSE st.new_jobs,
              ticks |-> n]

\* ProcessRaw without the test of line 109: every kept job is recorded as new
ProcessRawNoSeenTest(raw, st) ==
    LET n == st.ticks + 1
        plain == normalize_job(raw, Now(run, n))
        jid == job_id(plain)
        job == WithId(plain, jid)
    IN  IF ~KeywordMatch(job)
        THEN [st EXCEPT !.ticks = n]
        ELSE [seen |-> IF Has(st.seen, jid) THEN st.seen
                       ELSE Put(st.seen, jid, job.scraped_at),
              all_jobs |-> Append(st.all_jobs, job),
              new_jobs |-> Append(st.new_jobs, job),
              ticks |-> n]

\* ProcessRaw with line 110 moved out of the test of line 109: the timestamp of a
\* key is refreshed each time its job is fetched
ProcessRawRefresh(raw, st) ==
    LET n == st.ticks + 1
        plain == normalize_job(raw, Now(run, n))
        jid == job_id(plain)
        job == WithId(plain, jid)
    IN  IF ~KeywordMatch(job)
        THEN [st EXCEPT !.ticks = n]
        ELSE [seen |-> Put(st.seen, jid, job.scraped_at),
              all_jobs |-> Append(st.all_jobs, job),
              new_jobs |-> IF Has(st.seen, jid) THEN st.new_jobs
                           ELSE Append(st.new_jobs, job),
              ticks |-> n]

\* lines 99-111 for one raw record; st holds seen, all_jobs, new_jobs, ticks
ProcessRaw(raw, st) ==
    LET n == st.ticks + 1
        plain == normalize_job(raw, Now(run, n))
        jid == job_id(plain)
        job == WithId(plain, jid)
    IN  IF ~KeywordMatch(job)
        THEN [st EXCEPT !.ticks = n]
        ELSE IF ~Has(st.seen, jid)
        THEN [seen |-> Put(st.seen, jid, job.scraped_at),
              all_jobs |-> Append(st.all_jobs, job),
              new_jobs |-> Append(st.new_jobs, job),
              ticks |-> n]
        ELSE [st EXCEPT !.all_jobs = Append(st.all_jobs, job), !.ticks = n]

RECURSIVE ProcessResults(_, _)
ProcessResults(results, st) ==
    IF results = <<>> THEN st
    ELSE ProcessResults(Tail(results), ProcessRaw(Head(results), st))

\* Dedup without the test of line 117
DedupNone(jobs, seen_ids, deduped) ==
    [seen_ids |-> {jobs[i].id : i \in 1..Len(jobs)}, deduped |-> jobs]

\* Dedup keeping the last occurrence of each id instead of the first
RECURSIVE DedupKeepLast(_, _, _)
DedupKeepLast(jobs, seen_ids, deduped) ==
    IF jobs = <<>> THEN [seen_ids |-> seen_ids, deduped |-> deduped]
    ELSE IF \E i \in 2..Len(jobs) : jobs[i].id = Head(jobs).id
    THEN DedupKeepLast(Tail(jobs), seen_ids, deduped)
    ELSE DedupKeepLast(Tail(jobs), seen_ids \cup {Head(jobs).id},
                       Append(deduped, Head(jobs)))

\* lines 114-119: first occurrence of each id, in order
RECURSIVE Dedup(_, _, _)
Dedup(jobs, seen_ids, deduped) ==
    IF jobs = <<>> THEN [seen_ids |-> seen_ids, deduped |-> deduped]
    ELSE IF Head(jobs).id \notin seen_ids
    THEN Dedup(Tail(jobs), seen_ids \cup {Head(jobs).id}, Append(deduped, Head(jobs)))
    ELSE Dedup(Tail(jobs), seen_ids, deduped)

\* line 120
DedupNew(jobs, seen_ids) == SelectSeq(jobs, LAMBDA j : j.id \in seen_ids)

----------------------------------------------------------------------------
\* search_serpapi(q, loc) for the pair at index n: the answers it can return

ProviderAnswers ==
    {[status |-> "error", results |-> <<>>]}
        \cup {[status |-> "ok", results |-> r] : r \in Answers}

search_serpapi(n) ==
    IF ~apiKey THEN {[status |-> "nokey", results |-> <<>>]}
    ELSE IF source.frozen THEN {source.answers[n]}
    ELSE ProviderAnswers

\* a failed request ending the loops
AfterPairAbort(n, ans) == IF ans.status = "error" THEN Len(Pairs) + 1 ELSE n + 1

\* the loop goes on to the next pair whatever search_serpapi returned (lines 64-66, 93-96)
AfterPair(n, ans) == n + 1

\* nothing of lines 189-194 has run
NoMail == [force |-> FALSE, configured |-> FALSE, sessions |-> 0, failed |-> FALSE,
           raised |-> FALSE]

----------------------------------------------------------------------------
\* Actions

\* the script is invoked: module constants are read and main enters run_scan (line 89)
Start ==
    /\ pc \in {"idle", "done", "fatal"}
    /\ run < MaxRuns
    /\ run' = run + 1
    /\ apiKey' \in BOOLEAN
    /\ seen' = load_seen
    /\ seen0' = load_seen
    /\ all_jobs' = <<>>
    /\ new_jobs' = <<>>
    /\ pairIdx' = 1
    /\ ticks' = 0
    /\ fetchLog' = <<>>
    /\ prevLog' = IF source.frozen THEN fetchLog ELSE <<>>
    /\ reportWritten' = FALSE
    /\ mail' = NoMail
    /\ pc' = "scan"
    /\ UNCHANGED <<CONFIG, source, seenFile>>

\* one iteration of the nested loops (lines 93-111)
SearchPair ==
    /\ pc = "scan"
    /\ pairIdx <= Len(Pairs)
    /\ \E ans \in search_serpapi(pairIdx) :
          LET st == ProcessResults(ans.results,
                       [seen |-> seen, all_jobs |-> all_jobs,
                        new_jobs |-> new_jobs, ticks |-> ticks])
          IN  /\ seen' = st.seen
              /\ all_jobs' = st.all_jobs
              /\ new_jobs' = st.new_jobs
              /\ ticks' = st.ticks
              /\ fetchLog' = Append(fetchLog,
                     [loc |-> Pairs[pairIdx].loc, q |-> Pairs[pairIdx].q,
                      status |-> ans.status, results |-> ans.results])
              /\ pairIdx' = AfterPair(pairIdx, ans)
    /\ UNCHANGED <<CONFIG, source, seenFile, pc, run, apiKey, seen0, prevLog,
                   reportWritten, mail>>

\* the loops are over: deduplicate, save_seen, return (lines 113-123)
FinishScan ==
    /\ pc = "scan"
    /\ pairIdx > Len(Pairs)
    /\ LET d == Dedup(all_jobs, {}, <<>>)
       IN  /\ all_jobs' = d.deduped
           /\ new_jobs' = DedupNew(new_jobs, d.seen_ids)
    /\ seenFile' = save_seen(seen)
    /\ pc' = "scanned"
    /\ UNCHANGED <<CONFIG, source, run, apiKey, pairIdx, seen, ticks, seen0, fetchLog,
                   prevLog, reportWritten, mail>>

\* render_html (line 187): writes docs/index.html, or a template or filesystem
\* error propagates out of main
RenderHtml ==
    /\ pc = "scanned"
    /\ \E ok \in BOOLEAN :
          IF ok THEN reportWritten' = TRUE /\ pc' = "rendered"
          ELSE reportWritten' = FALSE /\ pc' = "fatal"
    /\ UNCHANGED <<CONFIG, source, seenFile, run, apiKey, pairIdx, seen, all_jobs,
                   new_jobs, ticks, seen0, fetchLog, prevLog, mail>>

\* what os.environ holds when lines 155-159 and 191 read it (FORCE_EMAIL non-empty,
\* SMTP_PORT a number, SMTP_USER, SMTP_PASS and EMAIL_TO all non-empty), and what
\* the email template and the SMTP relay will do
MailEnvs == [force : BOOLEAN, port_ok : BOOLEAN, configured : BOOLEAN,
             smtp_ok : BOOLEAN, template_ok : BOOLEAN]

\* send_email without the try/except of lines 171-178
send_email_uncaught(env) ==
    IF ~env.port_ok
    THEN [force |-> env.force, configured |-> FALSE, sessions |-> 0,
          failed |-> FALSE, raised |-> TRUE]
    ELSE IF ~env.configured
    THEN [force |-> env.force, configured |-> FALSE, sessions |-> 0,
          failed |-> FALSE, raised |-> FALSE]
    ELSE [force |-> env.force, configured |-> TRUE, sessions |-> 1,
          failed |-> ~env.smtp_ok, raised |-> ~env.smtp_ok]

\* send_email (lines 154-178): int() of a malformed SMTP_PORT raises (line 156); no
\* session without the three settings (line 161); one session otherwise, whose
\* exception is caught (line 177)
send_email(env) ==
    IF ~env.port_ok
    THEN [force |-> env.force, configured |-> FALSE, sessions |-> 0,
          failed |-> FALSE, raised |-> TRUE]
    ELSE IF ~env.configured
    THEN [force |-> env.force, configured |-> FALSE, sessions |-> 0,
          failed |-> FALSE, raised |-> FALSE]
    ELSE [force |-> env.force, configured |-> TRUE, sessions |-> 1,
          failed |-> ~env.smtp_ok, raised |-> FALSE]

\* line 189
EmailEnabled == Get(CONFIG, "email_enabled", TRUE)

\* the gate of line 191 left open
ShouldSendAlways(env) == TRUE

\* line 191
ShouldSend(env) == new_jobs # <<>> \/ env.force

\* lines 189-196: the email gate, render_email (whose template error propagates),
\* send_email, "Done."
Notify ==
    /\ pc = "rendered"
    /\ \E env \in MailEnvs :
          IF ~EmailEnabled
          THEN mail' = NoMail /\ pc' = "done"
          ELSE IF ~env.template_ok
          THEN mail' = NoMail /\ pc' = "fatal"
          ELSE IF ShouldSend(env)
          THEN /\ mail' = send_email(env)
               /\ pc' = IF mail'.raised THEN "fatal" ELSE "done"
          ELSE mail' = [NoMail EXCEPT !.force = env.force] /\ pc' = "done"
    /\ UNCHANGED <<CONFIG, source, seenFile, run, apiKey, pairIdx, seen, all_jobs,
                   new_jobs, ticks, seen0, fetchLog, prevLog, reportWritten>>

Next == Start \/ SearchPair \/ FinishScan \/ RenderHtml \/ Notify

InitCommon ==
    /\ CONFIG \in Configs
    /\ seenFile = [exists |-> FALSE, text |-> <<>>]
    /\ pc = "idle"
    /\ run = 0
    /\ apiKey = FALSE
    /\ pairIdx = 1
    /\ seen = <<>>
    /\ all_jobs = <<>>
    /\ new_jobs = <<>>
    /\ ticks = 0
    /\ seen0 = <<>>
    /\ fetchLog = <<>>
    /\ prevLog = <<>>
    /\ reportWritten = FALSE
    /\ mail = NoMail

\* the provider answers each request afresh
Init ==
    /\ InitCommon
    /\ source = [frozen |-> FALSE, answers |-> <<>>]

Spec == Init /\ [][Next]_vars

\* the provider's data does not change between invocations
InitFrozen ==
    /\ InitCommon
    /\ source \in [frozen : {TRUE}, answers : [1..Len(Pairs) -> ProviderAnswers]]

SpecFrozen == InitFrozen /\ [][Next]_vars

----------------------------------------------------------------------------
\* Vocabulary of the properties

\* run_scan has returned in the current invocation
Returned == pc \in {"scanned", "rendered", "done", "fatal"}

Ids(jobs) == {jobs[i].id : i \in 1..Len(jobs)}

RECURSIVE Concat(_)
Concat(ss) == IF ss = <<>> THEN <<>> ELSE Head(ss) \o Concat(Tail(ss))

\* the raw records fetched so far in this invocation, in fetch order
Fetched == Concat([i \in 1..Len(fetchLog) |-> fetchLog[i].results])

\* the n-th fetched record as normalize_job and job_id made it
FetchedJob(n) ==
    LET plain == normalize_job(Fetched[n], Now(run, n))
    IN  WithId(plain, job_id(plain))

\* the seen-set data/seen_jobs.json holds
Persisted == IF seenFile.exists THEN loads(seenFile.text) ELSE <<>>

\* dict a holds every key of dict b, with b's value
Extends(a, b) == \A k \in Keys(b) : Has(a, k) /\ Lookup(a, k) = Lookup(b, k)

----------------------------------------------------------------------------
\* C1: the all_jobs list run_scan returns holds no two records with the same
\* identity key, whatever the seen-set and the fetched records were.
C1_AllJobsDistinctIds ==
    Returned =>
        \A i, j \in 1..Len(all_jobs) : all_jobs[i].id = all_jobs[j].id => i = j

\* two fetched records with one identity passed the filter and were collapsed
C1_Witness ==
    /\ Returned
    /\ Len(all_jobs) = 1
    /\ \E m, n \in 1..Len(Fetched) :
          /\ m < n
          /\ KeywordMatch(FetchedJob(m)) /\ KeywordMatch(FetchedJob(n))
          /\ FetchedJob(m).id = FetchedJob(n).id

\* C2: the identity keys of new_jobs are among those of all_jobs, and none of them
\* was in the seen-set as loaded at the start of the run.
C2_NewJobsSubsetAndUnseen ==
    Returned =>
        /\ Ids(new_jobs) \subseteq Ids(all_jobs)
        /\ Ids(new_jobs) \cap Keys(seen0) = {}

\* a run that loaded a non-empty seen-set returned both a seen and a new job
C2_Witness ==
    /\ Returned
    /\ seen0 # <<>>
    /\ new_jobs # <<>>
    /\ Ids(all_jobs) \cap Keys(seen0) # {}

\* C3: data/seen_jobs.json never loses a key and never changes the first-seen
\* timestamp of a key it holds, across any sequence of runs, also when the job
\* of the key is fetched again.
C3_SeenSetMonotone == [][Extends(Persisted', Persisted)]_vars

\* a later run fetched a job whose key was already persisted, and added another key
C3_Witness ==
    /\ Returned
    /\ run > 1
    /\ \E n \in 1..Len(Fetched) :
          KeywordMatch(FetchedJob(n)) /\ Has(seen0, FetchedJob(n).id)
    /\ Keys(Persisted) # Keys(seen0)

\* C4: when a run loads the seen-set the run before it persisted and every pair
\* returns the records it returned in that run, the run returns no new jobs and
\* leaves the seen-set as it loaded it.
SameRecords ==
    /\ Len(prevLog) = Len(fetchLog)
    /\ \A i \in 1..Len(fetchLog) : prevLog[i].results = fetchLog[i].results

C4_SecondRunFindsNothingNew ==
    (Returned /\ run > 1 /\ SameRecords) =>
        /\ new_jobs = <<>>
        /\ Persisted = seen0

\* the repeated run fetched jobs that pass the filter, none of them new
C4_Witness ==
    /\ Returned
    /\ run > 1
    /\ SameRecords
    /\ apiKey
    /\ Len(all_jobs) > 1

\* C5 as amended: records of one run that share (title, company_name, location)
\* and pass the filter share their identity key, all_jobs keeps one record per
\* key, and that record is the first one processed: its description_snippet,
\* apply_link, via and scraped_at are the first record's.
SameIdentity(a, b) ==
    a.title = b.title /\ a.company_name = b.company_name /\ a.location = b.location

C5_FirstProcessedWins ==
    [][(pc = "scan" /\ pc' = "scanned") =>
          /\ \A m, n \in 1..Len(all_jobs) :
                SameIdentity(all_jobs[m], all_jobs[n]) => all_jobs[m].id = all_jobs[n].id
          /\ \A n \in 1..Len(all_jobs) :
                \E i \in 1..Len(all_jobs') : all_jobs'[i].id = all_jobs[n].id
          /\ \A i, j \in 1..Len(all_jobs') :
                all_jobs'[i].id = all_jobs'[j].id => i = j
          /\ \A i \in 1..Len(all_jobs') :
                \E n \in 1..Len(all_jobs) :
                    /\ all_jobs'[i] = all_jobs[n]
                    /\ \A m \in 1..(n - 1) : all_jobs[m].id # all_jobs[n].id]_vars

\* RawA then RawB were fetched and kept; the one record returned is RawA's
C5_Witness ==
    /\ Returned
    /\ Fetched = <<RawA, RawB>>
    /\ Len(all_jobs) = 1
    /\ all_jobs[1].via = "v1"
    /\ all_jobs[1].apply_link = "u1"
    /\ all_jobs[1].scraped_at = Now(run, 1)

\* C5 as stated: of the records that share an identity, the last one processed
\* is the one all_jobs keeps.
C5_LastProcessedWins ==
    [][(pc = "scan" /\ pc' = "scanned") =>
          \A i \in 1..Len(all_jobs') :
              \E n \in 1..Len(all_jobs) :
                  /\ all_jobs'[i] = all_jobs[n]
                  /\ \A m \in (n + 1)..Len(all_jobs) : all_jobs[m].id # all_jobs[n].id]_vars

\* C6: a failed request or a missing SERPAPI_KEY empties the answer of its pair only:
\* the pairs are requested one after the other in configuration order whatever the
\* earlier answers were, the scan is never stuck, run_scan returns after the last
\* pair with the seen-set saved, and the kept records of the pairs that answered
\* are in all_jobs, and in new_jobs when their key was not seen before.
C6_FailureCostsOnePair ==
    /\ \A i \in 1..Len(fetchLog) :
          /\ i <= Len(Pairs)
          /\ fetchLog[i].loc = Pairs[i].loc /\ fetchLog[i].q = Pairs[i].q
          /\ fetchLog[i].status # "ok" => fetchLog[i].results = <<>>
    /\ pc = "scan" =>
          /\ Len(fetchLog) = pairIdx - 1
          /\ ENABLED (SearchPair \/ FinishScan)
    /\ Returned =>
          /\ Len(fetchLog) = Len(Pairs)
          /\ seenFile.exists
          /\ \A n \in 1..Len(Fetched) :
                KeywordMatch(FetchedJob(n)) =>
                    /\ FetchedJob(n).id \in Ids(all_jobs)
                    /\ ~Has(seen0, FetchedJob(n).id) => FetchedJob(n).id \in Ids(new_jobs)

\* the first request failed and the job the second pair returned came out as new
C6_Witness ==
    /\ Returned
    /\ fetchLog[1].status = "error"
    /\ fetchLog[2].status = "ok"
    /\ Len(new_jobs) = 1

HasKeyword(job) ==
    LET kws == Get(CONFIG, "keywords", <<>>)
        text == lower(job.title) \o <<" ">> \o lower(job.description_snippet)
    IN  \E k \in {kws[i] : i \in 1..Len(kws)} : Contains(text, lower(k))

FetchedJobs == [n \in 1..Len(Fetched) |-> FetchedJob(n)]

C8_KeptIffKeyword ==
    LET kept == SelectSeq(FetchedJobs, HasKeyword)
    IN  /\ pc = "scan" =>
              /\ all_jobs = kept
              /\ Keys(seen) = Keys(seen0) \cup Ids(kept)
        /\ Returned =>
              /\ Ids(all_jobs) = Ids(kept)
              /\ Ids(new_jobs) \subseteq Ids(kept)
              /\ \A i \in 1..Len(all_jobs) :
                    \E n \in 1..Len(kept) : kept[n] = all_jobs[i]
              /\ Keys(Persisted) = Keys(seen0) \cup Ids(kept)
        /\ Get(CONFIG, "keywords", <<>>) = <<>> =>
              /\ all_jobs = <<>>
              /\ new_jobs = <<>>
              /\ Returned => Persisted = seen0

\* RawD (no keyword) and RawA (title RN, keyword Rn) were fetched: RawA alone was
\* kept, and the key of RawD was not marked
C8_Witness ==
    /\ Returned
    /\ Fetched = <<RawD, RawA>>
    /\ Len(all_jobs) = 1
    /\ all_jobs[1].title = Str_RN
    /\ ~Has(Persisted, job_id(normalize_job(RawD, Now(run, 1))))

\* C9: an SMTP session is opened only after docs/index.html was written, and a
\* session that raises leaves the run completing normally, the report in place.
C9_ReportBeforeMail ==
    [][(mail'.sessions > mail.sessions) =>
          /\ reportWritten
          /\ reportWritten'
          /\ pc' = "done"]_vars

\* the SMTP session of a run raised; the run is done and its report written
C9_Witness ==
    /\ mail.failed
    /\ mail.sessions = 1
    /\ pc = "done"
    /\ reportWritten

\* C10: new_jobs is all_jobs restricted to the keys absent from the seen-set as
\* loaded, records and order kept; the keys the run adds to the seen-set are the
\* keys of new_jobs, each with the scraped_at of its new_jobs record.
C10_NewJobsAndSeenUpdate ==
    Returned =>
        /\ new_jobs = SelectSeq(all_jobs, LAMBDA j : ~Has(seen0, j.id))
        /\ Keys(Persisted) \ Keys(seen0) = Ids(new_jobs)
        /\ \A i \in 1..Len(new_jobs) :
              Lookup(Persisted, new_jobs[i].id) = new_jobs[i].scraped_at

\* a run that loaded a non-empty seen-set returned an old job and then a new one
C10_Witness ==
    /\ Returned
    /\ Len(all_jobs) = 2
    /\ Has(seen0, all_jobs[1].id)
    /\ new_jobs = <<all_jobs[2]>>
    /\ Len(Persisted) = Len(seen0) + 1

====
